---- MODULE Spec2Model ----
(***************************************************************************)
(* Model of cwlink.py, a linker for AmigaDOS hunk object files.            *)
(*                                                                         *)
(* The state is the global database (db.hunks, db.symbols, db.map), the    *)
(* local variables of HunkReader.read for the file being decoded, the     *)
(* loop position of HunkWriter.write and the words written so far.         *)
(* The object files are produced block by block: every reader action       *)
(* stands for "the next block of the file is ..." and decodes that block.  *)
(***************************************************************************)
EXTENDS Integers, Sequences, FiniteSets, TLC

(***************************************************************************)
(* Bounds of the input generator.                                          *)
(***************************************************************************)
MaxFiles  == 2      \* object files on the command line
MaxHunks  == 3      \* section blocks in the files
MaxWords  == 1      \* longest CODE/DATA/BSS block, in words
MaxItems  == 4      \* section blocks, RELOC32 records and EXT records in the files
MaxBytes  == 5      \* longest byte stream handed to _read_word and _read_string

\* the unit name of the k-th file
UnitNames == <<"u1", "u2", "u3">>
Units(k)  == { UnitNames[k] }

Names   == {"a", "b"}
SymName == "s"

\* the word-aligned offsets inside the longest body
Offsets == { 4 * i : i \in 0..(MaxWords - 1) }

\* the values of the symbols
SymVals == {4}

(***************************************************************************)
(* Block types and symbol types (dos/doshunks.h).                          *)
(***************************************************************************)
HUNK_UNIT    == 999
HUNK_NAME    == 1000
HUNK_CODE    == 1001
HUNK_DATA    == 1002
HUNK_BSS     == 1003
HUNK_RELOC32 == 1004
HUNK_EXT     == 1007
HUNK_SYMBOL  == 1008
HUNK_END     == 1010
HUNK_HEADER  == 1011

EXT_DEF   == 1
EXT_REF32 == 129

HUNK_RELOC16 == 1005
HUNK_DEBUG   == 1009

EXT_SYMB   == 0
EXT_REF16  == 131
EXT_REF8   == 132
EXT_DEXT32 == 133

\* the tuple ('code', 'bss', 'data') of the three loops over the classes
Classes == <<"code", "bss", "data">>

\* the block type the writer pairs with each class
ClassWord(htype) ==
    CASE htype = "code" -> HUNK_CODE
      [] htype = "bss"  -> HUNK_BSS
      [] htype = "data" -> HUNK_DATA

\* a local variable of Python that no assignment has bound yet
UNBOUND == "<unbound>"

\* the same for btype, which holds a number once it is bound
NOBLOCK == 0

(***************************************************************************)
(* struct.pack('>L', w) and struct.unpack('>L', b): big-endian words.      *)
(***************************************************************************)
\* pack raises struct.error for a number outside 0..2^32 - 1; the numbers of
\* the model stay below 2^31, so that only the lower limit can be passed
CanPack(w) == w >= 0

Pack(w) == << (w \div 16777216) % 256, (w \div 65536) % 256,
              (w \div 256) % 256, w % 256 >>

CanUnpack(b) == Len(b) = 4

Unpack(b) == b[1] * 16777216 + b[2] * 65536 + b[3] * 256 + b[4]

\* b[lo:hi] of Python, lo and hi counted from 0, clipped to the length
Slice(b, lo, hi) ==
    LET l == IF lo < Len(b) THEN lo ELSE Len(b)
        h == IF hi < Len(b) THEN hi ELSE Len(b)
    IN  IF h <= l THEN << >> ELSE SubSeq(b, l + 1, h)

\* b[off:off + 4] = four: slice assignment of a bytearray
SliceAssign(b, off, four) ==
    Slice(b, 0, off) \o four \o Slice(b, off + 4, Len(b))

RECURSIVE Zeros(_)
Zeros(n) == IF n = 0 THEN << >> ELSE <<0>> \o Zeros(n - 1)

RECURSIVE SumSeq(_)
SumSeq(s) == IF s = << >> THEN 0 ELSE Head(s) + SumSeq(Tail(s))

\* d[k] = v of a Python dict whose order of keys does not matter
Put(d, k, v) == [x \in DOMAIN d \cup {k} |-> IF x = k THEN v ELSE d[x]]

(***************************************************************************)
(* The records of the database.                                            *)
(***************************************************************************)
Hunk(uname, content, refs, relocs) ==
    [uname |-> uname, content |-> content, refs |-> refs, relocs |-> relocs]

Symbol(uname, htype, hname, offset) ==
    [uname |-> uname, htype |-> htype, hname |-> hname, offset |-> offset]

Reloc(uname, htype, hname, hnum, offset) ==
    [uname |-> uname, htype |-> htype, hname |-> hname, hnum |-> hnum, offset |-> offset]

Reference(sname, type, offset) ==
    [sname |-> sname, type |-> type, offset |-> offset]

\* db.hunks[htype] is a dict that keeps insertion order: a sequence of
\* (hname, list of hunks) entries
BucketIndex(bl, hname) ==
    IF \E i \in 1..Len(bl) : bl[i].hname = hname
    THEN CHOOSE i \in 1..Len(bl) : bl[i].hname = hname
    ELSE 0

HasKey(bl, hname) == BucketIndex(bl, hname) # 0

\* db.hunks[htype][hname] = [] unless present, then .append(hunk)
AppendHunk(bl, hname, hunk) ==
    IF HasKey(bl, hname)
    THEN [bl EXCEPT ![BucketIndex(bl, hname)].hunks = Append(@, hunk)]
    ELSE Append(bl, [hname |-> hname, hunks |-> <<hunk>>])

\* the key uname + ':' + htype + ':' + hname of db.map
MapKey(uname, htype, hname) == <<uname, htype, hname>>

\* the value str(hnum) + ':' + str(disp) of db.map
MapTarget(hnum, disp) == [hnum |-> hnum, disp |-> disp]

NumHunksIn(bl) == SumSeq([i \in 1..Len(bl) |-> Len(bl[i].hunks)])

VARIABLES
    pc,      \* where the main program is
    nfiles,  \* number of object files opened so far
    rd,      \* local variables of HunkReader.read
    db,      \* the database
    wr,      \* loop variables of HunkWriter.write
    out,     \* the executable written so far
    errors,  \* messages logged at level ERROR
    gen      \* the object files: the section blocks read so far with their
             \* records (secs), and how many more section blocks (hunks) and
             \* blocks and records (items) the files may hold

vars == <<pc, nfiles, rd, db, wr, out, errors, gen>>

NumHunks == NumHunksIn(db.hunks["code"]) + NumHunksIn(db.hunks["bss"])
            + NumHunksIn(db.hunks["data"])

\* the bytes of the n-word body of the k-th section block of the input: the
\* words differ from block to block
BodyWord(k, i) == 16 * k + i

RECURSIVE BodyBytes(_, _)
BodyBytes(k, n) == IF n = 0 THEN << >> ELSE BodyBytes(k, n - 1) \o Pack(BodyWord(k, n))

RdInit ==
    [uname |-> UNBOUND, hname |-> UNBOUND, htype |-> UNBOUND, hunk |-> UNBOUND,
     hnum |-> 0, htype_hname |-> << >>, btype |-> NOBLOCK]

WrInit == [ci |-> 1, bi |-> 1, htype |-> UNBOUND]

Init ==
    /\ pc = "files"
    /\ nfiles = 0
    /\ rd = RdInit
    /\ db = [hunks |-> [code |-> << >>, data |-> << >>, bss |-> << >>],
             symbols |-> << >>, map |-> << >>]
    /\ wr = WrInit
    /\ out = [header |-> << >>, sections |-> << >>]
    /\ errors = << >>
    /\ gen = [secs |-> << >>, hunks |-> MaxHunks, items |-> MaxItems]

(***************************************************************************)
(* HunkReader.read: one action for each block type of the dispatch.        *)
(***************************************************************************)
SectionTypes == {HUNK_CODE, HUNK_DATA, HUNK_BSS}

\* for fname in args.files: reader = HunkReader(fname, db); reader.read()
OpenFile ==
    /\ pc = "files"
    /\ nfiles < MaxFiles
    /\ nfiles' = nfiles + 1
    /\ rd' = RdInit
    /\ pc' = "read"
    /\ UNCHANGED <<db, wr, out, errors, gen>>

\* btype == HUNK_UNIT
ReadUnit ==
    /\ pc = "read"
    /\ rd.btype = NOBLOCK
    /\ \E u \in Units(nfiles) :
          rd' = [rd EXCEPT !.btype = HUNK_UNIT, !.uname = u]
    /\ UNCHANGED <<pc, nfiles, db, wr, out, errors, gen>>

\* btype == HUNK_NAME
ReadName ==
    /\ pc = "read"
    /\ rd.btype \in {HUNK_UNIT, HUNK_END}
    /\ gen.hunks > 0
    /\ gen.items > 0
    /\ \E n \in Names :
          rd' = [rd EXCEPT !.btype = HUNK_NAME, !.hname = n]
    /\ UNCHANGED <<pc, nfiles, db, wr, out, errors, gen>>

\* a section block of the input: the unit and the index of its hunk in the
\* unit, class, name and body, the records that follow it, and the place of
\* the hunk in db.hunks
InputSection(uname, hnum, htype, hname, content, at) ==
    [uname |-> uname, hnum |-> hnum, htype |-> htype, hname |-> hname,
     content |-> content, at |-> at, relocs |-> << >>, defs |-> << >>, refs |-> << >>]

\* the body of the three branches HUNK_CODE, HUNK_DATA and HUNK_BSS, which
\* differ in the class and in the content only
ReadSection(btype, htype, content) ==
    LET hunk == Hunk(rd.uname, content, << >>, << >>)
        bl   == AppendHunk(db.hunks[htype], rd.hname, hunk)
        bi   == BucketIndex(bl, rd.hname)
        at   == [htype |-> htype, bi |-> bi, hi |-> Len(bl[bi].hunks)]
    IN  /\ rd' = [rd EXCEPT !.btype = btype, !.htype = htype, !.hunk = at]
        /\ db' = [db EXCEPT !.hunks[htype] = bl]
        /\ gen' = [gen EXCEPT !.hunks = @ - 1, !.items = @ - 1,
                              !.secs = Append(@, InputSection(rd.uname, rd.hnum, htype,
                                                              rd.hname, content, at))]
        /\ UNCHANGED <<pc, nfiles, wr, out, errors>>

\* btype == HUNK_CODE
ReadCode ==
    /\ pc = "read"
    /\ rd.btype = HUNK_NAME
    /\ \E nwords \in 0..MaxWords :
          ReadSection(HUNK_CODE, "code", BodyBytes(Len(gen.secs) + 1, nwords))

\* btype == HUNK_DATA
ReadData ==
    /\ pc = "read"
    /\ rd.btype = HUNK_NAME
    /\ \E nwords \in 0..MaxWords :
          ReadSection(HUNK_DATA, "data", BodyBytes(Len(gen.secs) + 1, nwords))

\* btype == HUNK_BSS
ReadBss ==
    /\ pc = "read"
    /\ rd.btype = HUNK_NAME
    /\ \E nwords \in 0..MaxWords :
          ReadSection(HUNK_BSS, "bss", Zeros(nwords * 4))

\* the hunk the local variable `hunk` of the reader refers to
CurHunk == db.hunks[rd.hunk.htype][rd.hunk.bi].hunks[rd.hunk.hi]

\* the offsets that no relocation and no reference of the hunk has yet: an
\* object file relocates a slot once
FreeOffsets ==
    Offsets \ ({ CurHunk.relocs[i].offset : i \in 1..Len(CurHunk.relocs) }
                 \cup { CurHunk.refs[i].offset : i \in 1..Len(CurHunk.refs) })

\* btype == HUNK_RELOC32, with one record {1, refhnum, offset} and the 0 word
ReadReloc32 ==
    /\ pc = "read"
    /\ rd.btype \in {HUNK_CODE, HUNK_DATA, HUNK_EXT, HUNK_RELOC32}
    /\ rd.htype # "bss"
    /\ gen.items > 0
    /\ \E refhnum \in 0..(rd.hnum + 1), offset \in FreeOffsets :
          /\ db' = [db EXCEPT !.hunks[rd.hunk.htype][rd.hunk.bi].hunks[rd.hunk.hi].relocs =
                                 Append(@, Reloc(rd.uname, "", "", refhnum, offset))]
          /\ gen' = [gen EXCEPT !.items = @ - 1,
                                !.secs[Len(gen.secs)].relocs =
                                   Append(@, [refhnum |-> refhnum, offset |-> offset])]
    /\ rd' = [rd EXCEPT !.btype = HUNK_RELOC32]
    /\ UNCHANGED <<pc, nfiles, wr, out, errors>>

\* a definition that leaves a symbol that is in the table already as it is:
\* if sname not in self._db.symbols: ...
ExtDefinitionFirstWins(d, sname, sval) ==
    IF sname \in DOMAIN d.symbols THEN d
    ELSE [d EXCEPT !.symbols = Put(@, sname, Symbol(rd.uname, rd.htype, rd.hname, sval))]

\* one record of an EXT block: stype in (EXT_DEF, EXT_ABS, EXT_RES)
ExtDefinition(d, sname, sval) ==
    [d EXCEPT !.symbols = Put(@, sname, Symbol(rd.uname, rd.htype, rd.hname, sval))]

\* one record of an EXT block: stype in (EXT_REF8, EXT_REF16, EXT_REF32), nrefs = 1
ExtReference(d, sname, stype, offset) ==
    [d EXCEPT !.hunks[rd.hunk.htype][rd.hunk.bi].hunks[rd.hunk.hi].refs =
                 Append(@, Reference(sname, stype, offset))]

\* the same records, noted with the section block they follow
GenDef(g, sname, sval) ==
    [g EXCEPT !.secs[Len(g.secs)].defs = Append(@, [sname |-> sname, sval |-> sval])]

GenRef(g, sname, offset) ==
    [g EXCEPT !.secs[Len(g.secs)].refs = Append(@, [sname |-> sname, offset |-> offset])]

\* btype == HUNK_EXT: a definition, a reference, or a definition and then a
\* reference, and the 0 word
ReadExt ==
    /\ pc = "read"
    /\ rd.btype \in SectionTypes
    /\ \/ /\ gen.items > 0
          /\ \E sval \in SymVals :
                /\ db' = ExtDefinition(db, SymName, sval)
                /\ gen' = GenDef([gen EXCEPT !.items = @ - 1], SymName, sval)
       \/ /\ gen.items > 0
          /\ rd.htype # "bss"
          /\ \E offset \in FreeOffsets :
                /\ db' = ExtReference(db, SymName, EXT_REF32, offset)
                /\ gen' = GenRef([gen EXCEPT !.items = @ - 1], SymName, offset)
       \/ /\ gen.items > 1
          /\ rd.htype # "bss"
          /\ \E sval \in SymVals, offset \in FreeOffsets :
                /\ db' = ExtReference(ExtDefinition(db, SymName, sval),
                                      SymName, EXT_REF32, offset)
                /\ gen' = GenRef(GenDef([gen EXCEPT !.items = @ - 2], SymName, sval),
                                 SymName, offset)
    /\ rd' = [rd EXCEPT !.btype = HUNK_EXT]
    /\ UNCHANGED <<pc, nfiles, wr, out, errors>>

\* btype == HUNK_END
ReadEnd ==
    /\ pc = "read"
    /\ rd.btype \in SectionTypes \cup {HUNK_EXT, HUNK_RELOC32}
    /\ rd' = [rd EXCEPT !.btype = HUNK_END,
                        !.htype_hname = Append(@, <<rd.htype, rd.hname>>),
                        !.hnum = @ + 1]
    /\ UNCHANGED <<pc, nfiles, db, wr, out, errors, gen>>

(***************************************************************************)
(* except EOFError with btype == HUNK_END: the relocations of the code     *)
(* hunks whose unit name is the one of this file are normalized, in the    *)
(* order of the three nested loops.  htype_hname[reloc.hnum] raises        *)
(* KeyError for a hunk number that no END block recorded; the relocations  *)
(* visited before it are normalized already.                               *)
(***************************************************************************)
\* the relocations the loops visit, as <<bucket, hunk, reloc>> positions
NormPositions(bl, uname) ==
    UNION { UNION { { <<bi, hi, ri>> : ri \in 1..Len(bl[bi].hunks[hi].relocs) } :
                    hi \in { h \in 1..Len(bl[bi].hunks) : bl[bi].hunks[h].uname = uname } } :
            bi \in 1..Len(bl) }

PosBefore(p, q) ==
    \/ p[1] < q[1]
    \/ p[1] = q[1] /\ p[2] < q[2]
    \/ p[1] = q[1] /\ p[2] = q[2] /\ p[3] < q[3]

NormFails(bl, uname, tab) ==
    { p \in NormPositions(bl, uname) :
        LET h == bl[p[1]].hunks[p[2]].relocs[p[3]].hnum
        IN  ~(h >= 0 /\ h < Len(tab)) }

\* the code buckets after the loops have run, to the end or to the KeyError
Normalize(bl, uname, tab) ==
    LET fails   == NormFails(bl, uname, tab)
        done(p) == /\ p \in NormPositions(bl, uname)
                   /\ \A f \in fails : PosBefore(p, f)
    IN  [bi \in 1..Len(bl) |->
          [bl[bi] EXCEPT !.hunks =
            [hi \in 1..Len(bl[bi].hunks) |->
              [bl[bi].hunks[hi] EXCEPT !.relocs =
                [ri \in 1..Len(bl[bi].hunks[hi].relocs) |->
                  LET r == bl[bi].hunks[hi].relocs[ri]
                  IN  IF done(<<bi, hi, ri>>)
                      THEN [r EXCEPT !.htype = tab[r.hnum + 1][1],
                                     !.hname = tab[r.hnum + 1][2]]
                      ELSE r]]]]]

\* except EOFError: the end of the file right after an END block
ReadEOF ==
    /\ pc = "read"
    /\ rd.btype = HUNK_END
    /\ db' = [db EXCEPT !.hunks["code"] = Normalize(@, rd.uname, rd.htype_hname)]
    /\ pc' = IF NormFails(db.hunks["code"], rd.uname, rd.htype_hname) = {}
             THEN "files" ELSE "crashed"
    /\ UNCHANGED <<nfiles, rd, wr, out, errors, gen>>

(***************************************************************************)
(* Main program, "resolve references to relocations".                      *)
(***************************************************************************)
\* phase R that takes a symbol without definition for the symbol 0 of the
\* hunk itself
RECURSIVE ResolveRefsUndefinedAsZero(_, _, _)
ResolveRefsUndefinedAsZero(hunk, i, symbols) ==
    IF i > Len(hunk.refs) THEN hunk
    ELSE LET ref   == hunk.refs[i]
             value == IF ref.sname \in DOMAIN symbols THEN symbols[ref.sname].offset ELSE 0
             reloc == IF ref.sname \in DOMAIN symbols
                      THEN Reloc(symbols[ref.sname].uname, symbols[ref.sname].htype,
                                 symbols[ref.sname].hname, -1, ref.offset)
                      ELSE Reloc(hunk.uname, "", "", -1, ref.offset)
         IN  ResolveRefsUndefinedAsZero([hunk EXCEPT
                                           !.relocs = Append(@, reloc),
                                           !.content = SliceAssign(@, ref.offset, Pack(value))],
                                        i + 1, symbols)

\* phase R that resolves a reference only against a symbol of the unit of
\* the referencing hunk, as a linker does that resolves file by file
RECURSIVE ResolveRefsSameUnit(_, _, _)
ResolveRefsSameUnit(hunk, i, symbols) ==
    IF i > Len(hunk.refs) THEN hunk
    ELSE LET ref == hunk.refs[i]
         IN  IF ref.sname \in DOMAIN symbols /\ symbols[ref.sname].uname = hunk.uname
             THEN LET sym   == symbols[ref.sname]
                      reloc == Reloc(sym.uname, sym.htype, sym.hname, -1, ref.offset)
                  IN  ResolveRefsSameUnit([hunk EXCEPT
                                             !.relocs = Append(@, reloc),
                                             !.content = SliceAssign(@, ref.offset,
                                                                     Pack(sym.offset))],
                                          i + 1, symbols)
             ELSE ResolveRefsSameUnit(hunk, i + 1, symbols)

\* for ref in hunk.refs: ..., from the i-th reference on
RECURSIVE ResolveRefs(_, _, _)
ResolveRefs(hunk, i, symbols) ==
    IF i > Len(hunk.refs) THEN hunk
    ELSE LET ref == hunk.refs[i]
         IN  IF ref.sname \in DOMAIN symbols
             THEN LET sym   == symbols[ref.sname]
                      reloc == Reloc(sym.uname, sym.htype, sym.hname, -1, ref.offset)
                  IN  ResolveRefs([hunk EXCEPT
                                     !.relocs = Append(@, reloc),
                                     !.content = SliceAssign(@, ref.offset, Pack(sym.offset))],
                                  i + 1, symbols)
             ELSE ResolveRefs(hunk, i + 1, symbols)

\* for hname in db.hunks[htype]: for hunk in db.hunks[htype][hname]: ...
ResolveBuckets(bl, symbols) ==
    [bi \in 1..Len(bl) |->
       [bl[bi] EXCEPT !.hunks =
          [hi \in 1..Len(bl[bi].hunks) |-> ResolveRefs(bl[bi].hunks[hi], 1, symbols)]]]

\* the "undefined symbol" messages of one hunk, of one bucket list
UndefinedOfHunk(hunk, symbols) ==
    LET undef(ref) == ref.sname \notin DOMAIN symbols
        names == [i \in 1..Len(hunk.refs) |-> hunk.refs[i]]
    IN  [i \in 1..Len(SelectSeq(names, undef)) |->
           <<"undefined symbol", SelectSeq(names, undef)[i].sname>>]

RECURSIVE UndefinedOfHunks(_, _)
UndefinedOfHunks(hunks, symbols) ==
    IF hunks = << >> THEN << >>
    ELSE UndefinedOfHunk(Head(hunks), symbols) \o UndefinedOfHunks(Tail(hunks), symbols)

RECURSIVE UndefinedOfBuckets(_, _)
UndefinedOfBuckets(bl, symbols) ==
    IF bl = << >> THEN << >>
    ELSE UndefinedOfHunks(Head(bl).hunks, symbols) \o UndefinedOfBuckets(Tail(bl), symbols)

\* the loop over ('code', 'data') that follows the loop over args.files
Resolve ==
    /\ pc = "files"
    /\ db' = [db EXCEPT !.hunks["code"] = ResolveBuckets(@, db.symbols),
                        !.hunks["data"] = ResolveBuckets(@, db.symbols)]
    /\ errors' = errors \o UndefinedOfBuckets(db.hunks["code"], db.symbols)
                        \o UndefinedOfBuckets(db.hunks["data"], db.symbols)
    /\ pc' = "map"
    /\ UNCHANGED <<nfiles, rd, wr, out, gen>>

(***************************************************************************)
(* Main program, "build map of executable".                                *)
(***************************************************************************)
\* phase M without "disp += len(hunk.content)"
RECURSIVE MapHunksNoAdvance(_, _, _, _, _, _)
MapHunksNoAdvance(map, htype, hname, hunks, hnum, disp) ==
    IF hunks = << >> THEN map
    ELSE MapHunksNoAdvance(Put(map, MapKey(Head(hunks).uname, htype, hname),
                               MapTarget(hnum, disp)),
                           htype, hname, Tail(hunks), hnum, disp)

\* for hunk in db.hunks[htype][hname]: db.map[source] = target; disp += len
RECURSIVE MapHunks(_, _, _, _, _, _)
MapHunks(map, htype, hname, hunks, hnum, disp) ==
    IF hunks = << >> THEN map
    ELSE MapHunks(Put(map, MapKey(Head(hunks).uname, htype, hname), MapTarget(hnum, disp)),
                  htype, hname, Tail(hunks), hnum, disp + Len(Head(hunks).content))

\* phase M with the names of a class taken in sorted order, as the header
\* loop of the writer takes them
RECURSIVE MapBucketsSorted(_, _, _, _)
MapBucketsSorted(map, htype, bl, hnum) ==
    IF bl = << >> THEN [map |-> map, hnum |-> hnum]
    ELSE LET names == [i \in 1..Len(bl) |-> bl[i].hname]
             least == CHOOSE i \in 1..Len(bl) :
                         \A j \in 1..Len(bl) :
                            \E x, y \in 1..2 :
                               /\ x <= y
                               /\ <<"a", "b">>[x] = names[i]
                               /\ <<"a", "b">>[y] = names[j]
             rest  == [i \in 1..(Len(bl) - 1) |-> IF i < least THEN bl[i] ELSE bl[i + 1]]
         IN  MapBucketsSorted(MapHunks(map, htype, bl[least].hname, bl[least].hunks, hnum, 0),
                              htype, rest, hnum + 1)

\* for hname in db.hunks[htype]: disp = 0; ...; hnum += 1
RECURSIVE MapBuckets(_, _, _, _)
MapBuckets(map, htype, bl, hnum) ==
    IF bl = << >> THEN [map |-> map, hnum |-> hnum]
    ELSE MapBuckets(MapHunks(map, htype, Head(bl).hname, Head(bl).hunks, hnum, 0),
                    htype, Tail(bl), hnum + 1)

\* phase M with a number set aside for a class that has no hunk
RECURSIVE MapClassesReserving(_, _, _, _)
MapClassesReserving(map, hunks, ci, hnum) ==
    IF ci > Len(Classes) THEN map
    ELSE LET r == MapBuckets(map, Classes[ci], hunks[Classes[ci]], hnum)
         IN  MapClassesReserving(r.map, hunks, ci + 1,
                                 IF hunks[Classes[ci]] = << >> THEN r.hnum + 1 ELSE r.hnum)

\* for htype in ('code', 'bss', 'data'): ..., from the ci-th class on
RECURSIVE MapClasses(_, _, _, _)
MapClasses(map, hunks, ci, hnum) ==
    IF ci > Len(Classes) THEN map
    ELSE LET r == MapBuckets(map, Classes[ci], hunks[Classes[ci]], hnum)
         IN  MapClasses(r.map, hunks, ci + 1, r.hnum)

BuildMap ==
    /\ pc = "map"
    /\ db' = [db EXCEPT !.map = MapClasses(@, db.hunks, 1, 0)]
    /\ pc' = "write"
    /\ UNCHANGED <<nfiles, rd, wr, out, errors, gen>>

(***************************************************************************)
(* HunkWriter.write: the header.                                           *)
(***************************************************************************)
\* the order sorted() gives the hunk names of the model
NameOrder == <<"a", "b">>

\* sorted(names)
Sorted(names) == LET in(n) == n \in names IN SelectSeq(NameOrder, in)

\* hsize % 4 > 0: hsize += 4 - hsize % 4
Padded(hsize) == IF hsize % 4 > 0 THEN hsize + (4 - (hsize % 4)) ELSE hsize

\* the sum of len(hunk.content) over the hunks of one bucket
BucketSize(hunks) == SumSeq([i \in 1..Len(hunks) |-> Len(hunks[i].content)])

\* for hname in sorted(db.hunks[htype]): ...; hsizes.append(hsize)
HeaderSizesOf(bl) ==
    LET names == Sorted({ bl[i].hname : i \in 1..Len(bl) })
    IN  [k \in 1..Len(names) |->
           Padded(BucketSize(bl[BucketIndex(bl, names[k])].hunks))]

\* hsizes after the loop over ('code', 'bss', 'data')
HeaderSizes(hunks) ==
    HeaderSizesOf(hunks[Classes[1]]) \o HeaderSizesOf(hunks[Classes[2]])
        \o HeaderSizesOf(hunks[Classes[3]])

\* the first iteration of the two nested loops over the buckets at or after
\* (ci, bi), or ci = 4 when the loops are over
RECURSIVE LoopPos(_, _, _)
LoopPos(hunks, ci, bi) ==
    IF ci > Len(Classes) THEN [ci |-> ci, bi |-> 1]
    ELSE IF bi <= Len(hunks[Classes[ci]]) THEN [ci |-> ci, bi |-> bi]
    ELSE LoopPos(hunks, ci + 1, 1)

\* the words of the header; _write_word(hnum - 1) raises struct.error for
\* hnum = 0, after four words have been written
WriteHeader ==
    LET hsizes == HeaderSizes(db.hunks)
        hnum   == Len(hsizes)
        first  == LoopPos(db.hunks, 1, 1)
    IN  /\ pc = "write"
        /\ IF CanPack(hnum - 1)
           THEN /\ out' = [out EXCEPT !.header =
                             <<HUNK_HEADER, 0, hnum, 0, hnum - 1>>
                               \o [i \in 1..hnum |-> hsizes[i] \div 4]]
                /\ pc' = "sections"
                /\ wr' = [ci |-> first.ci, bi |-> first.bi, htype |-> Classes[first.ci]]
           ELSE /\ out' = [out EXCEPT !.header = <<HUNK_HEADER, 0, hnum, 0>>]
                /\ pc' = "crashed"
                /\ wr' = wr
        /\ UNCHANGED <<nfiles, rd, db, errors, gen>>

(***************************************************************************)
(* HunkWriter.write: one iteration of "for hname in db.hunks[htype]".      *)
(***************************************************************************)
\* the patch loop with the two parts of the map entry taken in the wrong
\* order: disp, hnum = ....split(':')
RECURSIVE PatchHunkSwapped(_, _, _)
PatchHunkSwapped(hunk, i, map) ==
    IF i > Len(hunk.relocs) THEN [hunk |-> hunk, ok |-> TRUE]
    ELSE LET reloc == hunk.relocs[i]
             key   == MapKey(reloc.uname, reloc.htype, reloc.hname)
         IN  IF key \notin DOMAIN map THEN [hunk |-> hunk, ok |-> FALSE]
             ELSE LET disp == map[key].hnum
                      slot == Slice(hunk.content, reloc.offset, reloc.offset + 4)
                  IN  IF disp > 0
                      THEN IF CanUnpack(slot) /\ CanPack(Unpack(slot) + disp)
                           THEN PatchHunkSwapped([hunk EXCEPT !.content =
                                                    SliceAssign(@, reloc.offset,
                                                                Pack(Unpack(slot) + disp))],
                                                 i + 1, map)
                           ELSE [hunk |-> hunk, ok |-> FALSE]
                      ELSE PatchHunkSwapped(hunk, i + 1, map)

\* for reloc in hunk.relocs: patch the slot, from the i-th relocation on.
\* ok is FALSE when db.map has no such key (KeyError) or the slot cannot be
\* unpacked or packed (struct.error).
RECURSIVE PatchHunk(_, _, _)
PatchHunk(hunk, i, map) ==
    IF i > Len(hunk.relocs) THEN [hunk |-> hunk, ok |-> TRUE]
    ELSE LET reloc == hunk.relocs[i]
             key   == MapKey(reloc.uname, reloc.htype, reloc.hname)
         IN  IF key \notin DOMAIN map THEN [hunk |-> hunk, ok |-> FALSE]
             ELSE LET disp == map[key].disp
                      slot == Slice(hunk.content, reloc.offset, reloc.offset + 4)
                  IN  IF disp > 0
                      THEN IF CanUnpack(slot) /\ CanPack(Unpack(slot) + disp)
                           THEN PatchHunk([hunk EXCEPT !.content =
                                             SliceAssign(@, reloc.offset,
                                                         Pack(Unpack(slot) + disp))],
                                          i + 1, map)
                           ELSE [hunk |-> hunk, ok |-> FALSE]
                      ELSE PatchHunk(hunk, i + 1, map)

\* for reloc in hunk.relocs: reloc.offset += int(disp)
ShiftRelocs(relocs, disp) ==
    [i \in 1..Len(relocs) |-> [relocs[i] EXCEPT !.offset = @ + disp]]

\* for hunk in db.hunks[htype][hname]: ..., from the i-th hunk on; acc holds
\* the hunks as they are now, hsize, content and all_relocs
RECURSIVE MergeHunks(_, _, _, _, _)
MergeHunks(acc, i, htype, hname, map) ==
    IF i > Len(acc.hunks) THEN acc
    ELSE LET p == PatchHunk(acc.hunks[i], 1, map)
         IN  IF ~p.ok
             THEN [acc EXCEPT !.hunks[i] = p.hunk, !.ok = FALSE]
             ELSE LET disp   == map[MapKey(p.hunk.uname, htype, hname)].disp
                      relocs == ShiftRelocs(p.hunk.relocs, disp)
                  IN  MergeHunks([acc EXCEPT
                                    !.hunks[i] = [p.hunk EXCEPT !.relocs = relocs],
                                    !.hsize = @ + Len(p.hunk.content),
                                    !.content = @ \o p.hunk.content,
                                    !.all_relocs = @ \o relocs],
                                 i + 1, htype, hname, map)

\* the record of one target: the count, the hunk number, the offsets
RelocRecord(relocs, htype, hname, map) ==
    <<Len(relocs), map[MapKey(relocs[1].uname, htype, hname)].hnum>>
        \o [i \in 1..Len(relocs) |-> relocs[i].offset]

\* for hname in sorted(hnames): ..., for one class
RECURSIVE RelocRecords(_, _, _, _)
RelocRecords(all_relocs, htype, names, map) ==
    IF names = << >> THEN << >>
    ELSE LET to(reloc) == reloc.htype = htype /\ reloc.hname = Head(names)
         IN  RelocRecord(SelectSeq(all_relocs, to), htype, Head(names), map)
                 \o RelocRecords(all_relocs, htype, Tail(names), map)

\* hnames = set([reloc.hname for reloc in all_relocs if reloc.htype == htype])
TargetNames(all_relocs, htype) ==
    { all_relocs[i].hname : i \in { j \in 1..Len(all_relocs) : all_relocs[j].htype = htype } }

\* the words of the HUNK_RELOC32 block
RelocBlock(all_relocs, map) ==
    <<HUNK_RELOC32>>
       \o RelocRecords(all_relocs, Classes[1], Sorted(TargetNames(all_relocs, Classes[1])), map)
       \o RelocRecords(all_relocs, Classes[2], Sorted(TargetNames(all_relocs, Classes[2])), map)
       \o RelocRecords(all_relocs, Classes[3], Sorted(TargetNames(all_relocs, Classes[3])), map)
       \o <<0>>

\* what one iteration has written: the block type, then, unless an
\* exception ended the program, the size, the content, the relocation block
\* and HUNK_END
Section(btype, complete, size, content, reloc32) ==
    [btype |-> btype, complete |-> complete, size |-> size, content |-> content,
     reloc32 |-> reloc32]

\* The loop iterates the dict db.hunks[htype] that it took when the loop over
\* the names began; the body reads the variable htype, which the loop over
\* ('code', 'bss', 'data') of the relocation block assigns as well.
WriteSection ==
    LET ltype  == Classes[wr.ci]
        hname  == db.hunks[ltype][wr.bi].hname
        btype  == ClassWord(ltype)
        htype  == wr.htype
        bl     == db.hunks[htype]
        bi     == BucketIndex(bl, hname)
        acc    == MergeHunks([hunks |-> bl[bi].hunks, hsize |-> 0, content |-> << >>,
                              all_relocs |-> << >>, ok |-> TRUE],
                             1, htype, hname, db.map)
        next   == LoopPos(db.hunks, wr.ci, wr.bi + 1)
    IN  /\ pc = "sections"
        /\ IF ~HasKey(bl, hname)
           THEN /\ out' = [out EXCEPT !.sections =
                             Append(@, Section(btype, FALSE, 0, << >>, << >>))]
                /\ pc' = "crashed"
                /\ UNCHANGED <<db, wr>>
           ELSE IF ~acc.ok
           THEN /\ out' = [out EXCEPT !.sections =
                             Append(@, Section(btype, FALSE, 0, << >>, << >>))]
                /\ db' = [db EXCEPT !.hunks[htype][bi].hunks = acc.hunks]
                /\ pc' = "crashed"
                /\ wr' = wr
           ELSE /\ out' = [out EXCEPT !.sections =
                             Append(@, Section(btype, TRUE, Padded(acc.hsize) \div 4,
                                               IF htype # "bss" THEN acc.content ELSE << >>,
                                               IF acc.all_relocs # << >>
                                               THEN RelocBlock(acc.all_relocs, db.map)
                                               ELSE << >>))]
                /\ db' = [db EXCEPT !.hunks[htype][bi].hunks = acc.hunks]
                /\ wr' = [ci |-> next.ci, bi |-> next.bi,
                          htype |-> IF next.ci # wr.ci
                                    THEN (IF next.ci <= Len(Classes)
                                          THEN Classes[next.ci] ELSE wr.htype)
                                    ELSE IF acc.all_relocs # << >>
                                         THEN Classes[Len(Classes)] ELSE wr.htype]
                /\ pc' = IF next.ci > Len(Classes) THEN "done" ELSE "sections"
        /\ UNCHANGED <<nfiles, rd, errors, gen>>

Next ==
    \/ OpenFile
    \/ ReadUnit
    \/ ReadName
    \/ ReadCode
    \/ ReadData
    \/ ReadBss
    \/ ReadReloc32
    \/ ReadExt
    \/ ReadEnd
    \/ ReadEOF
    \/ Resolve
    \/ BuildMap
    \/ WriteHeader
    \/ WriteSection

Spec == Init /\ [][Next]_vars

(***************************************************************************)
(* The linker after it has decoded a first object file that holds a code   *)
(* hunk "a" of one word with a relocation of offset 0 to itself and a data *)
(* hunk "b" of one word: the file that follows is produced as under Spec.  *)
(***************************************************************************)
FirstFileCode ==
    Hunk(UnitNames[1], BodyBytes(1, 1), << >>, <<Reloc(UnitNames[1], "code", "a", 0, 0)>>)

FirstFileData == Hunk(UnitNames[1], BodyBytes(2, 1), << >>, << >>)

InitSecond ==
    /\ pc = "files"
    /\ nfiles = 1
    /\ rd = [uname |-> UnitNames[1], hname |-> "b", htype |-> "data",
             hunk |-> [htype |-> "data", bi |-> 1, hi |-> 1],
             hnum |-> 2, htype_hname |-> << <<"code", "a">>, <<"data", "b">> >>,
             btype |-> HUNK_END]
    /\ db = [hunks |-> [code |-> << [hname |-> "a", hunks |-> <<FirstFileCode>>] >>,
                        data |-> << [hname |-> "b", hunks |-> <<FirstFileData>>] >>,
                        bss |-> << >>],
             symbols |-> << >>, map |-> << >>]
    /\ wr = WrInit
    /\ out = [header |-> << >>, sections |-> << >>]
    /\ errors = << >>
    /\ gen = [secs |-> << [InputSection(UnitNames[1], 0, "code", "a", BodyBytes(1, 1),
                                        [htype |-> "code", bi |-> 1, hi |-> 1])
                             EXCEPT !.relocs = << [refhnum |-> 0, offset |-> 0] >>],
                          InputSection(UnitNames[1], 1, "data", "b", BodyBytes(2, 1),
                                       [htype |-> "data", bi |-> 1, hi |-> 1]) >>,
              hunks |-> MaxHunks - 1, items |-> MaxItems]

SpecSecond == InitSecond /\ [][Next]_vars

(***************************************************************************)
(* The reader on object files of any content: blocks the dispatch has no   *)
(* branch for, files that end inside a hunk, section blocks that no        *)
(* HUNK_NAME block precedes, and EXT records of the other symbol types.    *)
(***************************************************************************)
\* a word that is no member of BlockType
NoBlockType == 2000

\* btype = self._read_word(); log(DEBUG, ..., BlockType(btype), btype): the
\* arguments of the call are evaluated whatever the level, and BlockType()
\* raises ValueError for a word that is no member; nothing catches it
ReadUnknownBlock ==
    /\ pc = "read"
    /\ rd' = [rd EXCEPT !.btype = NoBlockType]
    /\ pc' = "crashed"
    /\ UNCHANGED <<nfiles, db, wr, out, errors, gen>>

\* else: log(ERROR, "block type %s not known or implemented", ex): a member
\* of BlockType without a branch reaches the else branch, where the name ex
\* is not defined; the NameError is raised before anything is logged
ReadUnhandledBlock ==
    /\ pc = "read"
    /\ \E btype \in {HUNK_RELOC16, HUNK_DEBUG} :
          rd' = [rd EXCEPT !.btype = btype]
    /\ pc' = "crashed"
    /\ UNCHANGED <<nfiles, db, wr, out, errors, gen>>

\* except EOFError with btype != HUNK_END: log(ERROR, ..., self.fname) raises
\* AttributeError, the attribute is _fname; in a file without any word btype
\* is not bound and the comparison raises UnboundLocalError
ReadTruncated ==
    /\ pc = "read"
    /\ rd.btype # HUNK_END
    /\ pc' = "crashed"
    /\ UNCHANGED <<nfiles, rd, db, wr, out, errors, gen>>

\* btype in (HUNK_CODE, HUNK_DATA, HUNK_BSS) after HUNK_UNIT or HUNK_END: no
\* HUNK_NAME block has assigned hname for this hunk.  The variable keeps the
\* name of the hunk before; in the first hunk of a file it is not bound and
\* `hname not in db.hunks[...]` raises UnboundLocalError
ReadUnnamed ==
    /\ pc = "read"
    /\ rd.btype \in {HUNK_UNIT, HUNK_END}
    /\ gen.hunks > 0
    /\ gen.items > 0
    /\ \E htype \in {"code", "data", "bss"}, nwords \in 0..MaxWords :
          IF rd.hname = UNBOUND
          THEN /\ rd' = [rd EXCEPT !.btype = ClassWord(htype), !.htype = htype]
               /\ pc' = "crashed"
               /\ UNCHANGED <<nfiles, db, wr, out, errors, gen>>
          ELSE ReadSection(ClassWord(htype), htype,
                           IF htype = "bss" THEN Zeros(nwords * 4)
                           ELSE BodyBytes(Len(gen.secs) + 1, nwords))

\* btype == HUNK_EXT with one record of type EXT_REF16 or EXT_REF8, nrefs = 1,
\* and the 0 word
ReadExtNarrow ==
    /\ pc = "read"
    /\ rd.btype \in SectionTypes
    /\ rd.htype # "bss"
    /\ gen.items > 0
    /\ \E stype \in {EXT_REF16, EXT_REF8}, offset \in FreeOffsets :
          /\ db' = ExtReference(db, SymName, stype, offset)
          /\ gen' = GenRef([gen EXCEPT !.items = @ - 1], SymName, offset)
    /\ rd' = [rd EXCEPT !.btype = HUNK_EXT]
    /\ UNCHANGED <<pc, nfiles, wr, out, errors>>

\* stype = (type_len & 0xff000000) >> 24 and the length of the name
TypeOf(type_len) == type_len \div 16777216
LenOf(type_len)  == type_len % 16777216

\* the bytes of a word decode as ASCII
Ascii(word) ==
    /\ word \div 16777216 < 128
    /\ (word \div 65536) % 256 < 128
    /\ (word \div 256) % 256 < 128
    /\ word % 256 < 128

\* while True: type_len = self._read_word(); ... over the words of the block
\* that follow the name of a record whose type has no branch: the branch
\* else reads nothing, so the words of the record are taken for the next
\* type_len.  The words of the model are below 2^24, their type is EXT_SYMB.
\* The loop ends with the 0 word ("break") or with an exception ("raise"):
\* _read_string raises UnicodeDecodeError for a byte above 127 and
\* struct.error for a name that is longer than the rest of the file, and the
\* block type that follows the block has a byte above 127.
RECURSIVE ExtLoop(_, _)
ExtLoop(words, errs) ==
    IF words = << >> THEN [errors |-> errs, end |-> "raise", rest |-> << >>]
    ELSE LET type_len == Head(words)
             n        == LenOf(type_len)
             here     == { i \in 2..Len(words) : i <= n + 1 }
         IN  IF type_len = 0
             THEN [errors |-> errs, end |-> "break", rest |-> Tail(words)]
             ELSE IF (\E i \in here : ~Ascii(words[i])) \/ Len(words) - 1 < n
             THEN [errors |-> errs, end |-> "raise", rest |-> << >>]
             ELSE ExtLoop(SubSeq(words, n + 2, Len(words)),
                          Append(errs, <<"symbol type not supported", TypeOf(type_len)>>))

\* the records of the other types as the object format lays them out: the
\* value of an EXT_SYMB record, the count and the offset of an EXT_DEXT32
\* record
OtherRecords ==
    { [stype |-> EXT_SYMB, words |-> <<sval>>] : sval \in SymVals \cup {0} }
       \cup { [stype |-> EXT_DEXT32, words |-> <<1, offset>>] : offset \in Offsets }

\* btype == HUNK_EXT with one record of another type and the 0 word:
\* log(ERROR, "symbol type %d not supported", stype), and the loop goes on
\* with the words of the record.  When the loop has ended before the 0 word
\* of the block, that word is read as a block type and BlockType(0) raises
\* ValueError.
ReadExtUnsupported ==
    /\ pc = "read"
    /\ rd.btype \in SectionTypes
    /\ gen.items > 0
    /\ \E rec \in OtherRecords :
          LET r == ExtLoop(rec.words \o <<0>>,
                           << <<"symbol type not supported", rec.stype>> >>)
          IN  /\ errors' = errors \o r.errors
              /\ IF r.end = "break" /\ r.rest = << >>
                 THEN /\ rd' = [rd EXCEPT !.btype = HUNK_EXT]
                      /\ pc' = pc
                 ELSE /\ rd' = [rd EXCEPT !.btype = IF r.end = "break" THEN Head(r.rest)
                                                    ELSE HUNK_EXT]
                      /\ pc' = "crashed"
    /\ gen' = [gen EXCEPT !.items = @ - 1]
    /\ UNCHANGED <<nfiles, db, wr, out>>

\* btype == HUNK_RELOC32 after HUNK_END, before the section block of the
\* next hunk: the variable hunk still refers to the hunk that HUNK_END has
\* finished, and hunk.relocs.append(...) adds the relocation to it.  Before
\* the first section block of a file hunk is not bound: UnboundLocalError.
\* A section block binds htype and hunk together
ReadRelocAfterEnd ==
    /\ pc = "read"
    /\ rd.btype \in {HUNK_UNIT, HUNK_END}
    /\ gen.items > 0
    /\ IF rd.htype = UNBOUND
       THEN /\ pc' = "crashed"
            /\ db' = db
       ELSE /\ pc' = pc
            /\ rd.htype # "bss"
            /\ \E refhnum \in 0..rd.hnum, offset \in FreeOffsets :
                  db' = [db EXCEPT !.hunks[rd.hunk.htype][rd.hunk.bi].hunks[rd.hunk.hi].relocs =
                                      Append(@, Reloc(rd.uname, "", "", refhnum, offset))]
    /\ gen' = [gen EXCEPT !.items = @ - 1]
    /\ rd' = [rd EXCEPT !.btype = HUNK_RELOC32]
    /\ UNCHANGED <<nfiles, wr, out, errors>>

NextAny ==
    \/ Next
    \/ ReadUnknownBlock
    \/ ReadUnhandledBlock
    \/ ReadTruncated
    \/ ReadUnnamed
    \/ ReadExtNarrow
    \/ ReadExtUnsupported
    \/ ReadRelocAfterEnd

\* as Init, with one section block less in the files
InitAny ==
    /\ pc = "files"
    /\ nfiles = 0
    /\ rd = RdInit
    /\ db = [hunks |-> [code |-> << >>, data |-> << >>, bss |-> << >>],
             symbols |-> << >>, map |-> << >>]
    /\ wr = WrInit
    /\ out = [header |-> << >>, sections |-> << >>]
    /\ errors = << >>
    /\ gen = [secs |-> << >>, hunks |-> MaxHunks - 1, items |-> MaxItems]

SpecAny == InitAny /\ [][NextAny]_vars

(***************************************************************************)
(* Definitions for the properties.                                         *)
(***************************************************************************)
\* the buckets of one class in insertion order
BucketsOf(htype) ==
    [i \in 1..Len(db.hunks[htype]) |->
       [htype |-> htype, bi |-> i, hname |-> db.hunks[htype][i].hname,
        hunks |-> db.hunks[htype][i].hunks]]

\* the output hunks: the buckets in the order code, bss, data and, within a
\* class, in the order in which the names first appeared
OutBuckets == BucketsOf("code") \o BucketsOf("bss") \o BucketsOf("data")

\* the number of the output hunk of a class and name
OutIndex(htype, hname) ==
    CHOOSE k \in 1..Len(OutBuckets) :
        OutBuckets[k].htype = htype /\ OutBuckets[k].hname = hname

RECURSIVE Concat(_)
Concat(ss) == IF ss = << >> THEN << >> ELSE Head(ss) \o Concat(Tail(ss))

\* the bodies of the hunks of a bucket, one after the other
BodyOf(hunks) == Concat([i \in 1..Len(hunks) |-> hunks[i].content])

\* the length of the bodies of the first n hunks of a bucket
PrefixLen(hunks, n) == SumSeq([j \in 1..n |-> Len(hunks[j].content)])

\* where the hunk at a place of db.hunks begins inside its output hunk
Displacement(at) == PrefixLen(db.hunks[at.htype][at.bi].hunks, at.hi - 1)

HunkAt(at) == db.hunks[at.htype][at.bi].hunks[at.hi]

\* the 32-bit word at a byte offset of a body
HasWordAt(content, offset) == Len(Slice(content, offset, offset + 4)) = 4
WordAt(content, offset) == Unpack(Slice(content, offset, offset + 4))

\* the placement map is built
MapBuilt == pc \in {"write", "sections", "done"}

\* the section blocks of the input that define a symbol, and the last of them
DefiningSecs(sname) ==
    { k \in 1..Len(gen.secs) :
        \E i \in 1..Len(gen.secs[k].defs) : gen.secs[k].defs[i].sname = sname }

Defined(sname) == DefiningSecs(sname) # {}

LastDefSec(sname) ==
    CHOOSE k \in DefiningSecs(sname) : \A j \in DefiningSecs(sname) : j <= k

LastDefValue(sname) ==
    LET defs == gen.secs[LastDefSec(sname)].defs
        last == CHOOSE i \in 1..Len(defs) :
                   /\ defs[i].sname = sname
                   /\ \A j \in 1..Len(defs) : defs[j].sname = sname => j <= i
    IN  defs[last].sval

\* the section block of a unit that has a hunk index, if there is one
HasTargetSec(uname, hnum) ==
    \E k \in 1..Len(gen.secs) : gen.secs[k].uname = uname /\ gen.secs[k].hnum = hnum

TargetSec(uname, hnum) ==
    CHOOSE k \in 1..Len(gen.secs) : gen.secs[k].uname = uname /\ gen.secs[k].hnum = hnum

\* the section blocks of the input whose hunks are in a bucket, in the order
\* of the bucket
SecsOfBucket(b) ==
    [i \in 1..Len(b.hunks) |->
       CHOOSE k \in 1..Len(gen.secs) :
          gen.secs[k].at = [htype |-> b.htype, bi |-> b.bi, hi |-> i]]

(***************************************************************************)
(* What the claims expect of the relocation block of an output hunk,       *)
(* computed from the object files.                                         *)
(***************************************************************************)
\* the relocations of one section block of the input as the linker is to
\* see them: the RELOC32 records, then one for each reference to a defined
\* symbol; each with the class and name of its target and its offset in
\* the merged body
WantedRelocsOfSec(k) ==
    LET sec  == gen.secs[k]
        disp == Displacement(sec.at)
        int  == [i \in 1..Len(sec.relocs) |->
                   LET t == gen.secs[TargetSec(sec.uname, sec.relocs[i].refhnum)]
                   IN  [htype |-> t.htype, hname |-> t.hname,
                        offset |-> sec.relocs[i].offset + disp]]
        isdef(ref) == Defined(ref.sname)
        drefs == SelectSeq(sec.refs, isdef)
        ext  == [i \in 1..Len(drefs) |->
                   LET t == gen.secs[LastDefSec(drefs[i].sname)]
                   IN  [htype |-> t.htype, hname |-> t.hname,
                        offset |-> drefs[i].offset + disp]]
    IN  int \o ext

WantedRelocs(b) ==
    LET secs == SecsOfBucket(b)
    IN  Concat([i \in 1..Len(secs) |-> WantedRelocsOfSec(secs[i])])

\* the targets in the order code, bss, data and then by name
TargetOrder ==
    << <<"code", "a">>, <<"code", "b">>, <<"bss", "a">>, <<"bss", "b">>,
       <<"data", "a">>, <<"data", "b">> >>

\* the records wanted for an output hunk: target, count and offsets
WantedRecords(b) ==
    LET relocs == WantedRelocs(b)
        used(t) == \E i \in 1..Len(relocs) :
                      relocs[i].htype = t[1] /\ relocs[i].hname = t[2]
        targets == SelectSeq(TargetOrder, used)
    IN  [j \in 1..Len(targets) |->
           LET to(r) == r.htype = targets[j][1] /\ r.hname = targets[j][2]
               rs == SelectSeq(relocs, to)
           IN  [count |-> Len(rs),
                hnum |-> OutIndex(targets[j][1], targets[j][2]) - 1,
                offsets |-> [i \in 1..Len(rs) |-> rs[i].offset]]]

\* the records of the words that follow the HUNK_RELOC32 word, up to the
\* 0 word; rest is what follows the 0 word
RECURSIVE ParseRecords(_)
ParseRecords(words) ==
    IF words = << >> THEN [records |-> << >>, ok |-> FALSE, rest |-> << >>]
    ELSE IF Head(words) = 0 THEN [records |-> << >>, ok |-> TRUE, rest |-> Tail(words)]
    ELSE IF Len(words) < 2 + Head(words)
         THEN [records |-> << >>, ok |-> FALSE, rest |-> << >>]
    ELSE LET n    == Head(words)
             more == ParseRecords(SubSeq(words, 3 + n, Len(words)))
         IN  [records |-> <<[count |-> n, hnum |-> words[2],
                             offsets |-> SubSeq(words, 3, 2 + n)]>> \o more.records,
              ok |-> more.ok, rest |-> more.rest]

\* the relocation block of a section is one well-formed HUNK_RELOC32 block
WellFormedBlock(reloc32) ==
    /\ reloc32 # << >>
    /\ Head(reloc32) = HUNK_RELOC32
    /\ ParseRecords(Tail(reloc32)).ok
    /\ ParseRecords(Tail(reloc32)).rest = << >>

EmittedRecords(reloc32) == ParseRecords(Tail(reloc32)).records

\* every relocation of the input has a target hunk in its unit
RelocsValid ==
    \A k \in 1..Len(gen.secs) : \A i \in 1..Len(gen.secs[k].relocs) :
        HasTargetSec(gen.secs[k].uname, gen.secs[k].relocs[i].refhnum)

\* no two section blocks of the input have the same unit name, class and
\* hunk name
UniqueKeys ==
    \A j, k \in 1..Len(gen.secs) :
        j # k => <<gen.secs[j].uname, gen.secs[j].htype, gen.secs[j].hname>>
                    # <<gen.secs[k].uname, gen.secs[k].htype, gen.secs[k].hname>>

\* every relocation and reference of the input addresses a word of the body
\* it comes with
SlotsInside ==
    \A k \in 1..Len(gen.secs) :
        /\ \A i \in 1..Len(gen.secs[k].relocs) :
              HasWordAt(gen.secs[k].content, gen.secs[k].relocs[i].offset)
        /\ \A i \in 1..Len(gen.secs[k].refs) :
              HasWordAt(gen.secs[k].content, gen.secs[k].refs[i].offset)

\* object files as a compiler writes them
WellFormedInput == UniqueKeys /\ RelocsValid /\ SlotsInside

\* the hunk names of one class in the order in which the section blocks of
\* the input first show them
RECURSIVE FirstSeen(_, _, _)
FirstSeen(secs, htype, seen) ==
    IF secs = << >> THEN seen
    ELSE IF /\ Head(secs).htype = htype
            /\ \A i \in 1..Len(seen) : seen[i] # Head(secs).hname
         THEN FirstSeen(Tail(secs), htype, Append(seen, Head(secs).hname))
         ELSE FirstSeen(Tail(secs), htype, seen)

\* the (class, name) pairs of the input: code, bss, data and, within a
\* class, the names as they first appeared
PairsOf(htype) ==
    [i \in 1..Len(FirstSeen(gen.secs, htype, << >>)) |->
       <<htype, FirstSeen(gen.secs, htype, << >>)[i]>>]

WantedOrder == PairsOf("code") \o PairsOf("bss") \o PairsOf("data")

\* phase M is over and the writer has not begun
PhaseMDone == pc = "write"

\* what db.map holds for the i-th hunk of a bucket
Placement(b, i) == db.map[MapKey(b.hunks[i].uname, b.htype, b.hname)]

\* the last hunk of a bucket with the unit name of the i-th
LastOfUnit(hunks, i) ==
    CHOOSE j \in i..Len(hunks) :
        /\ hunks[j].uname = hunks[i].uname
        /\ \A m \in (j + 1)..Len(hunks) : hunks[m].uname # hunks[i].uname

\* the hunks of a bucket come from different units
DistinctUnits(hunks) ==
    \A i, j \in 1..Len(hunks) : i # j => hunks[i].uname # hunks[j].uname

(***************************************************************************)
(* C1: for well-formed object files, for every output hunk the writer      *)
(* emits the class word of its class and, for code and data, the           *)
(* concatenation in insertion order of the patched bodies of exactly the   *)
(* hunks of that bucket.                                                   *)
(***************************************************************************)
C1_EmittedBodies ==
    WellFormedInput =>
       /\ pc = "done" => Len(out.sections) = Len(OutBuckets)
       /\ \A k \in 1..Len(out.sections) :
             out.sections[k].complete =>
                /\ out.sections[k].btype = ClassWord(OutBuckets[k].htype)
                /\ OutBuckets[k].htype # "bss" =>
                      out.sections[k].content = BodyOf(OutBuckets[k].hunks)

(***************************************************************************)
(* C2: the k-th size word of the header is the padded word size of the     *)
(* output hunk that phase M numbered k, and of the k-th section block.     *)
(***************************************************************************)
C2_HeaderSizes ==
    pc \in {"sections", "done"} =>
       /\ Len(out.header) = 5 + Len(OutBuckets)
       /\ \A k \in 1..Len(OutBuckets) :
             out.header[5 + k] = Padded(BucketSize(OutBuckets[k].hunks)) \div 4
       /\ \A k \in 1..Len(out.sections) :
             out.sections[k].complete => out.sections[k].size = out.header[5 + k]

(***************************************************************************)
(* C3: for well-formed object files, after the patch pass the word at the  *)
(* offset of every reference of a code or data hunk to a defined symbol is *)
(* the value of the symbol plus the displacement of the hunk that defines  *)
(* it inside its output hunk.                                              *)
(***************************************************************************)
C3_ReferenceSlots ==
    pc = "done" /\ WellFormedInput =>
       \A k \in 1..Len(gen.secs) :
          gen.secs[k].htype \in {"code", "data"} =>
             \A i \in 1..Len(gen.secs[k].refs) :
                LET ref == gen.secs[k].refs[i]
                IN  Defined(ref.sname) =>
                       /\ HasWordAt(HunkAt(gen.secs[k].at).content, ref.offset)
                       /\ WordAt(HunkAt(gen.secs[k].at).content, ref.offset) =
                             LastDefValue(ref.sname)
                                + Displacement(gen.secs[LastDefSec(ref.sname)].at)

(***************************************************************************)
(* C4: for well-formed object files, after the patch pass the word at the  *)
(* offset of every relocation that a code or data hunk got from a RELOC32  *)
(* block is the word of the input plus the displacement of the target hunk *)
(* of the relocation inside its output hunk.                               *)
(***************************************************************************)
C4_RelocationSlots ==
    pc = "done" /\ WellFormedInput =>
       \A k \in 1..Len(gen.secs) :
          gen.secs[k].htype \in {"code", "data"} =>
             \A i \in 1..Len(gen.secs[k].relocs) :
                LET reloc == gen.secs[k].relocs[i]
                    sec   == gen.secs[k]
                IN  HasWordAt(sec.content, reloc.offset) =>
                       /\ HasWordAt(HunkAt(sec.at).content, reloc.offset)
                       /\ WordAt(HunkAt(sec.at).content, reloc.offset) =
                             WordAt(sec.content, reloc.offset)
                                + Displacement(gen.secs[TargetSec(sec.uname, reloc.refhnum)].at)

(***************************************************************************)
(* C5: when the decode of a unit of well-formed object files completes,    *)
(* every relocation of every hunk of the unit, in data hunks as in code    *)
(* hunks, carries the unit name and the class and name recorded for its    *)
(* target hunk index.                                                      *)
(***************************************************************************)
DecodeComplete == pc = "files" /\ nfiles > 0

C5_Normalized ==
    DecodeComplete /\ WellFormedInput =>
       \A k \in 1..Len(OutBuckets) : \A i \in 1..Len(OutBuckets[k].hunks) :
          LET hunk == OutBuckets[k].hunks[i]
          IN  hunk.uname = rd.uname =>
                 \A j \in 1..Len(hunk.relocs) :
                    /\ hunk.relocs[j].hnum < Len(rd.htype_hname)
                    /\ hunk.relocs[j].uname = rd.uname
                    /\ <<hunk.relocs[j].htype, hunk.relocs[j].hname>> =
                          rd.htype_hname[hunk.relocs[j].hnum + 1]

C7_Numbering ==
    PhaseMDone =>
       /\ \A n \in 1..Len(WantedOrder) : \A k \in 1..Len(gen.secs) :
             <<gen.secs[k].htype, gen.secs[k].hname>> = WantedOrder[n] =>
                db.map[MapKey(gen.secs[k].uname, gen.secs[k].htype,
                              gen.secs[k].hname)].hnum = n - 1
       /\ { db.map[key].hnum : key \in DOMAIN db.map } = 0..(Len(WantedOrder) - 1)

\* phase M has numbered three pairs of an input that shows a data hunk
\* first and then the code names "b" and "a"
C7_Witness ==
    /\ PhaseMDone
    /\ Len(WantedOrder) = 3
    /\ gen.secs[1].htype = "data"
    /\ PairsOf("code") = << <<"code", "b">>, <<"code", "a">> >>
    /\ db.map[MapKey(gen.secs[1].uname, "data", gen.secs[1].hname)].hnum = 2

(***************************************************************************)
(* C8: for well-formed object files, after map-building the triple of      *)
(* every relocation of every code and data hunk is a key of the placement  *)
(* map.                                                                    *)
(***************************************************************************)
C8_TriplesMapped ==
    PhaseMDone /\ WellFormedInput =>
       \A k \in 1..Len(OutBuckets) :
          OutBuckets[k].htype \in {"code", "data"} =>
             \A i \in 1..Len(OutBuckets[k].hunks) :
                \A j \in 1..Len(OutBuckets[k].hunks[i].relocs) :
                   LET reloc == OutBuckets[k].hunks[i].relocs[j]
                   IN  MapKey(reloc.uname, reloc.htype, reloc.hname) \in DOMAIN db.map

(***************************************************************************)
(* C9: for well-formed object files, the section of every output hunk      *)
(* with relocations holds one HUNK_RELOC32 block with                      *)
(* one record for each target (class, name), in the order code, bss, data  *)
(* and then by name, each with the count of the relocations to the target, *)
(* the output hunk index of the target and as many offset words, and then  *)
(* the 0 word; the section of an output hunk without relocations holds no  *)
(* HUNK_RELOC32 block.                                                     *)
(***************************************************************************)
C9_RelocBlocks ==
    WellFormedInput =>
       \A k \in 1..Len(out.sections) :
          out.sections[k].complete =>
             LET wanted == WantedRecords(OutBuckets[k])
                 block  == out.sections[k].reloc32
             IN  IF wanted = << >> THEN block = << >>
                 ELSE /\ WellFormedBlock(block)
                      /\ Len(EmittedRecords(block)) = Len(wanted)
                      /\ \A j \in 1..Len(wanted) :
                            /\ EmittedRecords(block)[j].count = wanted[j].count
                            /\ EmittedRecords(block)[j].hnum = wanted[j].hnum
                            /\ Len(EmittedRecords(block)[j].offsets) = wanted[j].count

(***************************************************************************)
(* C10: for well-formed object files, in every section whose               *)
(* HUNK_RELOC32 block has the records of its output hunk, every            *)
(* offset word is the offset of the relocation inside the hunk it came     *)
(* with plus the displacement of that hunk inside the output hunk.         *)
(***************************************************************************)
SameRecords(emitted, wanted) ==
    /\ Len(emitted) = Len(wanted)
    /\ \A j \in 1..Len(wanted) :
          /\ emitted[j].count = wanted[j].count
          /\ emitted[j].hnum = wanted[j].hnum

C10_Offsets ==
    WellFormedInput =>
       \A k \in 1..Len(out.sections) :
          LET wanted == WantedRecords(OutBuckets[k])
              block  == out.sections[k].reloc32
          IN  /\ out.sections[k].complete
              /\ WellFormedBlock(block)
              /\ SameRecords(EmittedRecords(block), wanted)
              => \A j \in 1..Len(wanted) :
                    EmittedRecords(block)[j].offsets = wanted[j].offsets

(***************************************************************************)
(* C11: phase R reports every reference to a symbol that no unit defines,  *)
(* once for each such reference, leaves the body of its hunk as it is and  *)
(* appends no relocation for it; phase R itself never fails, and when the  *)
(* files hold no other relocation the writer goes on to the end.           *)
(***************************************************************************)
\* the code and data hunks as <<class, bucket, hunk>> places
RefPlaces ==
    { <<c, bi, hi>> \in {"code", "data"} \X (1..MaxHunks) \X (1..MaxHunks) :
         bi <= Len(db.hunks[c]) /\ hi <= Len(db.hunks[c][bi].hunks) }

\* the references of a hunk to symbols that db.symbols does not hold
UndefinedRefs(hunk) ==
    { i \in 1..Len(hunk.refs) : hunk.refs[i].sname \notin DOMAIN db.symbols }

\* the number of references of all hunks without a definition
RECURSIVE CountUndefined(_)
CountUndefined(places) ==
    IF places = {} THEN 0
    ELSE LET p == CHOOSE q \in places : TRUE
         IN  Cardinality(UndefinedRefs(db.hunks[p[1]][p[2]].hunks[p[3]]))
                + CountUndefined(places \ {p})

PhaseR == pc = "files" /\ pc' = "map"

\* the files hold a reference, no definition and no RELOC32 record
OnlyUndefined ==
    /\ \E k \in 1..Len(gen.secs) : gen.secs[k].refs # << >>
    /\ \A k \in 1..Len(gen.secs) : gen.secs[k].defs = << >> /\ gen.secs[k].relocs = << >>

C11_UndefinedStep ==
    PhaseR =>
       /\ Len(errors') = Len(errors) + CountUndefined(RefPlaces)
       /\ \A n \in (Len(errors) + 1)..Len(errors') :
             /\ errors'[n][1] = "undefined symbol"
             /\ errors'[n][2] \notin DOMAIN db.symbols
       /\ \A p \in RefPlaces :
             LET before == db.hunks[p[1]][p[2]].hunks[p[3]]
                 after  == db'.hunks[p[1]][p[2]].hunks[p[3]]
             IN  /\ Len(after.relocs) = Len(before.relocs) + Len(before.refs)
                                           - Cardinality(UndefinedRefs(before))
                 /\ \A i \in UndefinedRefs(before) :
                       /\ Slice(after.content, before.refs[i].offset,
                                 before.refs[i].offset + 4)
                             = Slice(before.content, before.refs[i].offset,
                                     before.refs[i].offset + 4)
                       /\ \A j \in (Len(before.relocs) + 1)..Len(after.relocs) :
                             after.relocs[j].offset # before.refs[i].offset
                 /\ UndefinedRefs(before) = 1..Len(before.refs) => after = before

C11_Undefined ==
    /\ [][C11_UndefinedStep]_vars
    /\ [](OnlyUndefined /\ out.header # << >> => pc # "crashed")

\* the writer has finished an executable for files with a reference and no
\* definition, and the error is logged
C11_Witness ==
    /\ pc = "done"
    /\ OnlyUndefined
    /\ errors = << <<"undefined symbol", SymName>> >>
    /\ \E k \in 1..Len(out.sections) : out.sections[k].content # << >>

(***************************************************************************)
(* C12: a step of phase P leaves the slot of every relocation whose target *)
(* has displacement 0 in the placement map as it is, and changes no byte   *)
(* of a body outside the slots of the relocations whose target has a       *)
(* displacement greater than 0; the length of the body stays.              *)
(***************************************************************************)
PhaseP == pc = "sections"

\* the relocations of a hunk whose target the map places at displacement 0,
\* and those it places further on
RelocsAtZero(hunk) ==
    { i \in 1..Len(hunk.relocs) :
        LET key == MapKey(hunk.relocs[i].uname, hunk.relocs[i].htype, hunk.relocs[i].hname)
        IN  key \in DOMAIN db.map /\ db.map[key].disp = 0 }

RelocsDisplaced(hunk) ==
    { i \in 1..Len(hunk.relocs) :
        LET key == MapKey(hunk.relocs[i].uname, hunk.relocs[i].htype, hunk.relocs[i].hname)
        IN  key \in DOMAIN db.map /\ db.map[key].disp > 0 }

C12_PatchStep ==
    PhaseP =>
       \A p \in RefPlaces :
          LET before == db.hunks[p[1]][p[2]].hunks[p[3]]
              after  == db'.hunks[p[1]][p[2]].hunks[p[3]]
          IN  /\ Len(after.content) = Len(before.content)
              /\ \A i \in RelocsAtZero(before) :
                    (\A j \in RelocsDisplaced(before) :
                        before.relocs[j].offset # before.relocs[i].offset)
                    => Slice(after.content, before.relocs[i].offset,
                             before.relocs[i].offset + 4)
                         = Slice(before.content, before.relocs[i].offset,
                                 before.relocs[i].offset + 4)
              /\ \A b \in 1..Len(before.content) :
                    after.content[b] # before.content[b] =>
                       \E j \in RelocsDisplaced(before) :
                          /\ before.relocs[j].offset < b
                          /\ b <= before.relocs[j].offset + 4

C12_ZeroDisplacement == [][C12_PatchStep]_vars

\* the writer has finished; a code hunk in an output hunk other than the
\* first has a relocation to a target at displacement 0 and the word of
\* the file in its slot
C12_Witness ==
    /\ pc = "done"
    /\ \E k \in 1..Len(gen.secs) :
          /\ gen.secs[k].htype = "code"
          /\ gen.secs[k].relocs # << >>
          /\ SlotsInside
          /\ RelocsAtZero(HunkAt(gen.secs[k].at)) # {}
          /\ HunkAt(gen.secs[k].at).content = gen.secs[k].content
          /\ \E i \in RelocsAtZero(HunkAt(gen.secs[k].at)) :
                LET r == HunkAt(gen.secs[k].at).relocs[i]
                IN  db.map[MapKey(r.uname, r.htype, r.hname)].hnum > 0

(***************************************************************************)
(* C13: the input is one unit with a code hunk, hunk 0, that has one       *)
(* relocation to hunk 1, and a data hunk, hunk 1, and no bss hunk.  The    *)
(* executable has two hunks: code is hunk 0 and data is hunk 1, no number  *)
(* is set aside for the absent bss class, and the record of the            *)
(* HUNK_RELOC32 block of the code hunk names hunk 1.                       *)
(***************************************************************************)
CodeThenData ==
    /\ Len(gen.secs) = 2
    /\ gen.secs[1].uname = gen.secs[2].uname
    /\ gen.secs[1].htype = "code" /\ gen.secs[1].hnum = 0
    /\ gen.secs[2].htype = "data" /\ gen.secs[2].hnum = 1
    /\ Len(gen.secs[1].relocs) = 1
    /\ gen.secs[1].relocs[1].refhnum = 1
    /\ gen.secs[1].refs = << >>
    /\ gen.secs[2].relocs = << >> /\ gen.secs[2].refs = << >>

\* the number the map gives the k-th section block of the input
NumberOf(k) == db.map[MapKey(gen.secs[k].uname, gen.secs[k].htype, gen.secs[k].hname)].hnum

C13_DataIsHunkOne ==
    (CodeThenData /\ pc = "done") =>
       /\ Len(out.header) = 7
       /\ out.header[3] = 2 /\ out.header[5] = 1
       /\ NumberOf(1) = 0
       /\ NumberOf(2) = 1
       /\ Len(out.sections) = 2
       /\ out.sections[1].btype = HUNK_CODE
       /\ out.sections[2].btype = HUNK_DATA
       /\ WellFormedBlock(out.sections[1].reloc32)
       /\ EmittedRecords(out.sections[1].reloc32)
             = << [count |-> 1, hnum |-> 1,
                   offsets |-> <<gen.secs[1].relocs[1].offset>>] >>
       /\ out.sections[2].reloc32 = << >>

\* the statement with hunk 1 set aside for bss: data is hunk 2 and the
\* record names hunk 2
C13_DataIsHunkTwo ==
    (CodeThenData /\ pc = "done") =>
       /\ NumberOf(1) = 0
       /\ NumberOf(2) = 2
       /\ WellFormedBlock(out.sections[1].reloc32)
       /\ EmittedRecords(out.sections[1].reloc32)[1].hnum = 2

\* the executable of such an input is written, with a body in the code hunk
C13_Witness ==
    /\ CodeThenData
    /\ pc = "done"
    /\ nfiles = 1
    /\ gen.secs[1].content # << >>
    /\ out.sections[1].reloc32 # << >>

(***************************************************************************)
(* C14: a step that reads a block the decoder does not handle reports the  *)
(* block, ends the decoding of this file and leaves the database as it is: *)
(* the driver is back at its loop over the files.                          *)
(***************************************************************************)
\* the reader is at the next block of a file
Decoding == pc = "read"

C14_Step ==
    (Decoding /\ rd'.btype \in {NoBlockType, HUNK_RELOC16}) =>
       /\ pc' = "files"
       /\ db' = db
       /\ Len(errors') = Len(errors) + 1

C14_UnhandledBlock == [][C14_Step]_vars

(***************************************************************************)
(* C15: when a file ends anywhere but after a HUNK_END block, the step     *)
(* reports the truncation and ends the decoding of the file without        *)
(* normalizing its relocations: the database is as before and the driver   *)
(* is back at its loop over the files.                                     *)
(***************************************************************************)
\* the file ends here: the reader leaves its loop with its variables as
\* they are
FileEnds == Decoding /\ pc' # pc /\ rd' = rd

C15_Step ==
    (FileEnds /\ rd.btype # HUNK_END) =>
       /\ pc' = "files"
       /\ db' = db
       /\ Len(errors') = Len(errors) + 1

C15_Truncation == [][C15_Step]_vars

(***************************************************************************)
(* C16: a step that reads a HUNK_DEBUG block passes over it: the database  *)
(* and the list of errors are as before and the reader is at the block     *)
(* that follows.                                                           *)
(***************************************************************************)
C16_Step ==
    (Decoding /\ rd'.btype = HUNK_DEBUG) =>
       /\ pc' = "read"
       /\ db' = db
       /\ errors' = errors

C16_DebugSkipped == [][C16_Step]_vars

(***************************************************************************)
(* C17: a step that reads a section block right after HUNK_UNIT or         *)
(* HUNK_END, with no HUNK_NAME block before it in its hunk, files the new  *)
(* hunk under the empty name, and the reader goes on.                      *)
(***************************************************************************)
C17_Step ==
    (Decoding /\ rd.btype \in {HUNK_UNIT, HUNK_END} /\ rd'.btype \in SectionTypes) =>
       /\ pc' = "read"
       /\ HasKey(db'.hunks[rd'.htype], "")
       /\ rd'.hunk.bi = BucketIndex(db'.hunks[rd'.htype], "")

C17_EmptyName == [][C17_Step]_vars

(***************************************************************************)
(* C18: a step that reads an EXT record of a type other than EXT_DEF,      *)
(* EXT_ABS, EXT_RES, EXT_REF32, EXT_REF16 and EXT_REF8 reports the type    *)
(* and passes over the record: the database is as before, and the reader   *)
(* goes on, inside its loop, after the EXT block.                          *)
(***************************************************************************)
\* the step logs "symbol type %d not supported"
ReportsSymbolType ==
    /\ Len(errors') > Len(errors)
    /\ errors'[Len(errors) + 1][1] = "symbol type not supported"

C18_Step ==
    (Decoding /\ ReportsSymbolType) =>
       /\ pc' = "read"
       /\ rd'.btype = HUNK_EXT
       /\ db' = db

C18_RecordSkipped == [][C18_Step]_vars

(***************************************************************************)
(* C19: phase R leaves the references of type EXT_REF16 and EXT_REF8       *)
(* alone: it appends no relocation with the offset of such a reference,    *)
(* and the body of a hunk whose references are all of these types is as    *)
(* before.                                                                 *)
(***************************************************************************)
NarrowRefs(hunk) ==
    { i \in 1..Len(hunk.refs) : hunk.refs[i].type \in {EXT_REF16, EXT_REF8} }

C19_Step ==
    PhaseR =>
       \A p \in RefPlaces :
          LET before == db.hunks[p[1]][p[2]].hunks[p[3]]
              after  == db'.hunks[p[1]][p[2]].hunks[p[3]]
          IN  /\ \A i \in NarrowRefs(before) :
                    \A j \in (Len(before.relocs) + 1)..Len(after.relocs) :
                       after.relocs[j].offset # before.refs[i].offset
              /\ NarrowRefs(before) = 1..Len(before.refs)
                    => after.content = before.content

C19_NarrowNotPatched == [][C19_Step]_vars

(***************************************************************************)
(* C20: when the program has ended, its exit status is 0 exactly when the  *)
(* executable is written and no file held an EXT record of an unsupported  *)
(* symbol type or a block of an unknown type.                              *)
(***************************************************************************)
\* the script has run to its last line, or an exception has ended it
Terminated == pc \in {"done", "crashed"}

\* the status of the interpreter: 1 after an uncaught exception, 0 when the
\* script has run to its end; the script never calls sys.exit
ExitStatus == IF pc = "crashed" THEN 1 ELSE 0

\* the decoder has reported a symbol type
SymbolTypeReported ==
    \E i \in 1..Len(errors) : errors[i][1] = "symbol type not supported"

\* the decoder has met a block type it has no branch for
BlockTypeUnknown == rd.btype \in {NoBlockType, HUNK_RELOC16, HUNK_DEBUG}

C20_ExitCode ==
    Terminated =>
       (ExitStatus = 0 <=> (pc = "done" /\ ~SymbolTypeReported /\ ~BlockTypeUnknown))

(***************************************************************************)
(* C21: the header is in the output file whole or not at all: when the     *)
(* writer fails while it builds the header, no word of it has been         *)
(* written.                                                                *)
(***************************************************************************)
\* the five words and the size words of a header are all there
HeaderWhole == Len(out.header) >= 5 /\ Len(out.header) = 5 + out.header[3]

C21_NoPartialHeader == out.header = << >> \/ HeaderWhole

(***************************************************************************)
(* C22: the header is HUNK_HEADER, 0, the number H of output hunks, 0,     *)
(* H - 1 and H size words; the size word of an output hunk is the sum of   *)
(* the body lengths of its hunks, rounded up to whole words, and every     *)
(* section block written in full carries the size word that the header has *)
(* for the same output hunk.                                               *)
(***************************************************************************)
\* the size word of the k-th output hunk
SizeWord(k) == Padded(BucketSize(OutBuckets[k].hunks)) \div 4

C22_Header ==
    pc \in {"sections", "done"} =>
       LET H == Len(OutBuckets)
       IN  /\ Len(out.header) = 5 + H
           /\ SubSeq(out.header, 1, 5) = <<HUNK_HEADER, 0, H, 0, H - 1>>
           /\ \A k \in 1..H : out.header[5 + k] = SizeWord(k)
           /\ \A k \in 1..Len(out.sections) :
                 out.sections[k].complete =>
                    /\ out.sections[k].size = SizeWord(k)
                    /\ out.sections[k].size = out.header[5 + k]

(***************************************************************************)
(* C23: the symbol table holds exactly the names that the files read so    *)
(* far define, and for each name the unit, the class and the hunk name of  *)
(* the section block that the last defining EXT block follows, with the    *)
(* value of the last definition.                                           *)
(***************************************************************************)
C23_LastDefinition ==
    /\ \A sname \in DOMAIN db.symbols : Defined(sname)
    /\ \A sname \in {SymName} :
          Defined(sname) =>
             /\ sname \in DOMAIN db.symbols
             /\ LET sec == gen.secs[LastDefSec(sname)]
                IN  db.symbols[sname]
                       = Symbol(sec.uname, sec.htype, sec.hname, LastDefValue(sname))

\* a name has two definitions, in section blocks that differ in class or in
\* hunk name, and the table holds the site of the second
C23_Witness ==
    \E j, k \in DefiningSecs(SymName) :
       /\ j < k
       /\ k = LastDefSec(SymName)
       /\ <<gen.secs[j].htype, gen.secs[j].hname>> # <<gen.secs[k].htype, gen.secs[k].hname>>
       /\ db.symbols[SymName].htype = gen.secs[k].htype
       /\ db.symbols[SymName].hname = gen.secs[k].hname

(***************************************************************************)
(* HunkReader._read_word and HunkReader._read_string on a byte stream.     *)
(* The file object is the stream with the read position; rd holds it       *)
(* together with the call made last and what the call gave.                *)
(***************************************************************************)
Bytes == {0, 65, 200}

ByteStreams == UNION { [1..n -> Bytes] : n \in 0..MaxBytes }

\* self._fobj.read(n): at most n bytes from the position on
FileRead(fobj, n) == Slice(fobj.bytes, fobj.pos, fobj.pos + n)

\* what a call gives: a value that is returned, or the exception raised
Returned(kind, val) == [exc |-> "none", kind |-> kind, val |-> val]
Raised(exc)         == [exc |-> exc, kind |-> "none", val |-> << >>]

\* buffer = self._fobj.read(4); if buffer: return unpack('>L', buffer)[0];
\* else: raise EOFError.  unpack raises struct.error for a buffer that is
\* not 4 bytes long
read_word(fobj) ==
    LET buffer == FileRead(fobj, 4)
    IN  IF buffer # << >>
        THEN IF CanUnpack(buffer) THEN Returned("int", <<Unpack(buffer)>>)
             ELSE Raised("struct.error")
        ELSE Raised("EOFError")

\* buffer = self._fobj.read(nchars); if buffer: return unpack('%ds' % nchars,
\* buffer)[0].decode('ascii').replace('\x00', ''); else: return EOFError.
\* The else branch returns the class, it does not raise it
read_string(fobj, nchars) ==
    LET buffer == FileRead(fobj, nchars)
        notnul(b) == b # 0
    IN  IF buffer # << >>
        THEN IF Len(buffer) # nchars THEN Raised("struct.error")
             ELSE IF \E i \in 1..Len(buffer) : buffer[i] > 127
             THEN Raised("UnicodeDecodeError")
             ELSE Returned("str", SelectSeq(buffer, notnul))
        ELSE Returned("type", << >>)

\* the words of the model are below 2^31
Representable(fobj) ==
    LET buffer == FileRead(fobj, 4)
    IN  Len(buffer) = 4 => buffer[1] < 128

CallReadWord ==
    /\ pc = "stream"
    /\ rd.result.exc = "none"
    /\ Representable(rd.fobj)
    /\ rd' = [fobj   |-> [rd.fobj EXCEPT !.pos = @ + Len(FileRead(rd.fobj, 4))],
              call   |-> "_read_word",
              nchars |-> 4,
              buffer |-> FileRead(rd.fobj, 4),
              left   |-> Len(rd.fobj.bytes) - rd.fobj.pos,
              result |-> read_word(rd.fobj)]
    /\ UNCHANGED <<pc, nfiles, db, wr, out, errors, gen>>

CallReadString ==
    /\ pc = "stream"
    /\ rd.result.exc = "none"
    /\ \E nwords \in 0..2 :
          rd' = [fobj   |-> [rd.fobj EXCEPT !.pos = @ + Len(FileRead(rd.fobj, nwords * 4))],
                 call   |-> "_read_string",
                 nchars |-> nwords * 4,
                 buffer |-> FileRead(rd.fobj, nwords * 4),
                 left   |-> Len(rd.fobj.bytes) - rd.fobj.pos,
                 result |-> read_string(rd.fobj, nwords * 4)]
    /\ UNCHANGED <<pc, nfiles, db, wr, out, errors, gen>>

InitStream ==
    /\ pc = "stream"
    /\ nfiles = 0
    /\ \E bytes \in ByteStreams :
          rd = [fobj |-> [bytes |-> bytes, pos |-> 0], call |-> "none", nchars |-> 0,
                buffer |-> << >>, left |-> Len(bytes), result |-> Returned("none", << >>)]
    /\ db = [hunks |-> [code |-> << >>, data |-> << >>, bss |-> << >>],
             symbols |-> << >>, map |-> << >>]
    /\ wr = WrInit
    /\ out = [header |-> << >>, sections |-> << >>]
    /\ errors = << >>
    /\ gen = [secs |-> << >>, hunks |-> 0, items |-> 0]

NextStream == CallReadWord \/ CallReadString

SpecStream == InitStream /\ [][NextStream]_vars

(***************************************************************************)
(* C24: a call of _read_word with fewer than 4 bytes left in the stream    *)
(* raises EOFError; with 4 bytes or more it returns the big-endian value   *)
(* of the next 4 bytes and the position is 4 bytes further.                *)
(***************************************************************************)
C24_ReadWord ==
    (pc = "stream" /\ rd.call = "_read_word") =>
       IF rd.left < 4
       THEN rd.result = Raised("EOFError")
       ELSE /\ rd.result = Returned("int", <<Unpack(rd.buffer)>>)
            /\ Len(rd.buffer) = 4
            /\ rd.fobj.pos = Len(rd.fobj.bytes) - rd.left + 4

(***************************************************************************)
(* C25: a call of _read_string for nchars = 4 * nwords bytes raises        *)
(* EOFError when fewer than nchars bytes are left in the stream, and       *)
(* otherwise returns the next nchars bytes, which are ASCII, without the   *)
(* NUL bytes: the empty string for nwords = 0 and for NUL bytes only.      *)
(***************************************************************************)
NotNul(b) == b # 0

C25_ReadString ==
    (pc = "stream" /\ rd.call = "_read_string") =>
       IF rd.left < rd.nchars
       THEN rd.result = Raised("EOFError")
       ELSE (\A i \in 1..Len(rd.buffer) : rd.buffer[i] <= 127) =>
               rd.result = Returned("str", SelectSeq(rd.buffer, NotNul))

(***************************************************************************)
(* C26: while a file is decoded, hnum is the number of HUNK_END blocks     *)
(* read so far, starting at 0; the step that reads HUNK_END records under  *)
(* the old hnum the class and the name of the hunk it ends; and a          *)
(* HUNK_RELOC32 or HUNK_EXT block read after HUNK_END, before the next     *)
(* section block, leaves the hunks of the database as they are.            *)
(***************************************************************************)
C26_Step ==
    /\ (pc = "files" /\ pc' = "read") =>
          rd'.hnum = 0 /\ rd'.htype_hname = << >>
    /\ (Decoding /\ pc' = "read" /\ rd'.btype = HUNK_END) =>
          /\ rd'.hnum = rd.hnum + 1
          /\ Len(rd'.htype_hname) = rd'.hnum
          /\ rd'.htype_hname[rd'.hnum]
                = <<rd.hunk.htype, db.hunks[rd.hunk.htype][rd.hunk.bi].hname>>
    /\ (Decoding /\ pc' = "read" /\ rd'.btype # HUNK_END) =>
          rd'.hnum = rd.hnum /\ rd'.htype_hname = rd.htype_hname
    /\ (Decoding /\ rd.btype = HUNK_END /\ rd'.btype \in {HUNK_RELOC32, HUNK_EXT}) =>
          db'.hunks = db.hunks

C26_EndBlocks == [][C26_Step]_vars

(***************************************************************************)
(* C27: the program decodes the files, then resolves, then builds the map, *)
(* then writes; once it resolves, no file is decoded any more.  The step   *)
(* of phase R gives every reference whose symbol some file defines, an     *)
(* earlier or a later one, a relocation to the site of the last            *)
(* definition.                                                             *)
(***************************************************************************)
PhaseOrder ==
    { <<"files", "read">>, <<"read", "files">>, <<"files", "map">>, <<"map", "write">>,
      <<"write", "sections">>, <<"sections", "done">>,
      <<"read", "crashed">>, <<"write", "crashed">>, <<"sections", "crashed">> }

C27_Step ==
    /\ pc' # pc => <<pc, pc'>> \in PhaseOrder
    /\ pc \notin {"files", "read"} => (nfiles' = nfiles /\ rd' = rd /\ gen' = gen)
    /\ PhaseR =>
          \A p \in RefPlaces :
             LET before == db.hunks[p[1]][p[2]].hunks[p[3]]
                 after  == db'.hunks[p[1]][p[2]].hunks[p[3]]
             IN  \A i \in 1..Len(before.refs) :
                    Defined(before.refs[i].sname) =>
                       LET sec == gen.secs[LastDefSec(before.refs[i].sname)]
                       IN  \E j \in (Len(before.relocs) + 1)..Len(after.relocs) :
                              after.relocs[j]
                                 = Reloc(sec.uname, sec.htype, sec.hname, -1,
                                         before.refs[i].offset)

C28_LengthKept ==
    pc \in {"map", "write", "sections", "done"} =>
       \A k \in 1..Len(gen.secs) :
          Len(HunkAt(gen.secs[k].at).content) = Len(gen.secs[k].content)

(***************************************************************************)
(* C29: when the map is built, the entry found with the unit name, class   *)
(* and hunk name of any hunk of the database has the displacement that is  *)
(* the sum of the body lengths of the hunks before it in its bucket, and   *)
(* the number of its output hunk.                                          *)
(***************************************************************************)
C29_OwnDisplacement ==
    PhaseMDone =>
       \A k \in 1..Len(OutBuckets) :
          \A i \in 1..Len(OutBuckets[k].hunks) :
             /\ MapKey(OutBuckets[k].hunks[i].uname, OutBuckets[k].htype,
                       OutBuckets[k].hname) \in DOMAIN db.map
             /\ Placement(OutBuckets[k], i).disp = PrefixLen(OutBuckets[k].hunks, i - 1)
             /\ Placement(OutBuckets[k], i).hnum = k - 1

(***************************************************************************)
(* C30: every step of the decoder either stays in the loop over the blocks *)
(* of the file or leaves it by returning to the driver, whatever the file  *)
(* holds: HunkReader.read ends no other way.                               *)
(***************************************************************************)
C30_Step == Decoding => pc' \in {"read", "files"}

C30_ReadReturns == [][C30_Step]_vars

====
